---- MODULE Spec2Model ----
(***************************************************************************)
(* Model of src/snowpark_pipeline.py: main(session) issues seven           *)
(* statements against a Snowflake session, one after the other.  The       *)
(* state is the configuration read from the environment, the warehouse    *)
(* (catalog of objects, rows of the target table, load metadata of the    *)
(* target table), the files at the storage URL, and the position of main. *)
(*                                                                         *)
(* Conventions.  A text is a sequence of one-character strings.  A cell    *)
(* of a table row is <<>> (SQL NULL) or <<v>>.  A dotted name is the       *)
(* sequence of its parts; Dotted renders it as the f-string does.  A       *)
(* DOUBLE is the decimal record [ip, fp] of its integer part and its      *)
(* fraction digits without trailing zeroes.                                *)
(***************************************************************************)
EXTENDS Integers, Sequences, FiniteSets, Bags, TLC

VARIABLES
    env,          \* the environment variables that are set when the module is imported
    bucket,       \* the files at the storage URL: records [name, lines]
    objects,      \* the warehouse catalog: set of [kind, name, url, format, columns]
    tableRows,    \* the rows of the target table, a bag
    loadHistory,  \* load metadata of the target table: names of the files already loaded
    pc,           \* the position of the current call of main
    issued,       \* the statements the current call has issued, each with its outcome
    error,        \* the exception the current call raised ("none" if none)
    copyResult,   \* the output of COPY INTO in the current call (per file processed)
    returned,     \* whether the current call has returned a list of rows
    result,       \* the list main returned, a bag of records
    history,      \* how the earlier calls of main ended
    failures      \* how many statements the warehouse has refused so far

vars == <<env, bucket, objects, tableRows, loadHistory, pc, issued, error,
          copyResult, returned, result, history, failures>>

----------------------------------------------------------------------------
(* Bounds *)

\* calls of main in one behaviour
MaxRuns == 3
\* statements the warehouse refuses (connectivity, privileges) in one behaviour
MaxFailures == 2
\* rows of a target table that exists before the first call
PriorRows == 8
\* length of the text drawn for the probed Amount/Profit field
MaxTextLen == 3

\* df.limit(10)
SampleLimit == 10

----------------------------------------------------------------------------
(* Configuration: lines 11-22 *)

EnvVars == {"SF_DB", "SF_SCHEMA", "SF_FILE_FORMAT", "SF_STAGE", "SF_TABLE",
            "S3_URL", "COPY_PATTERN"}

\* The value a variable has when it is set.  The pattern is a regular
\* expression given as its tokens.
EnvValue(v) ==
    CASE v = "SF_DB"          -> "MYDB"
      [] v = "SF_SCHEMA"      -> "RAW"
      [] v = "SF_FILE_FORMAT" -> "my_fmt"
      [] v = "SF_STAGE"       -> "my_stage"
      [] v = "SF_TABLE"       -> "SALES"
      [] v = "S3_URL"         -> "s3://other/"
      [] v = "COPY_PATTERN"   -> <<".*", "o", "r", "d", "e", "r", ".*">>

\* os.getenv(name, default)
Getenv(v, default) == IF v \in env THEN EnvValue(v) ELSE default

DB == Getenv("SF_DB", "DATA_PIPELINE_DB")
SCHEMA == Getenv("SF_SCHEMA", "CSV_FILES")
FILE_FORMAT_NAME == Getenv("SF_FILE_FORMAT", "csv_format")
STAGE_NAME == Getenv("SF_STAGE", "aws_stage")
TABLE_NAME == Getenv("SF_TABLE", "ORDERS")
S3_URL == Getenv("S3_URL", "s3://bucketsnowflakes3/")
COPY_PATTERN == Getenv("COPY_PATTERN", <<".*", "O", "r", "d", "e", "r", ".*">>)

RECURSIVE Dotted(_)
\* f"{a}.{b}.{c}": the parts of a dotted name joined by "."
Dotted(q) ==
    IF Len(q) = 1 THEN q[1] ELSE q[1] \o "." \o Dotted(Tail(q))

FQ_SCHEMA == <<DB, SCHEMA>>
FQ_FILE_FORMAT == <<DB, SCHEMA, FILE_FORMAT_NAME>>
FQ_STAGE_Miscopied == <<DB, SCHEMA, FILE_FORMAT_NAME>>
FQ_STAGE == <<DB, SCHEMA, STAGE_NAME>>
FQ_TABLE == <<DB, SCHEMA, TABLE_NAME>>

----------------------------------------------------------------------------
(* The statements of main, lines 36-100.  Every statement is a record of  *)
(* the same shape; a field a statement does not have is empty.            *)

NoColumns == <<>>

Stmt(op, name) ==
    [op |-> op, name |-> name, ifNotExists |-> FALSE, orReplace |-> FALSE,
     url |-> "", format |-> <<>>, from |-> <<>>, pattern |-> <<>>,
     onError |-> "ABORT_STATEMENT", force |-> FALSE, columns |-> NoColumns,
     derive |-> <<>>, limit |-> <<>>]

WithoutIfNotExists == FALSE
\* "IF NOT EXISTS" of the five CREATE statements: lines 37, 38, 44, 56, 66
IfNotExists == TRUE

\* line 37
SqlCreateDatabase ==
    [Stmt("CREATE DATABASE", <<DB>>) EXCEPT !.ifNotExists = IfNotExists]

\* line 38
SqlCreateSchema ==
    [Stmt("CREATE SCHEMA", FQ_SCHEMA) EXCEPT !.ifNotExists = IfNotExists]

\* lines 41-50
SqlCreateFileFormat ==
    [Stmt("CREATE FILE FORMAT", FQ_FILE_FORMAT) EXCEPT !.ifNotExists = IfNotExists]

\* lines 53-60
SqlCreateStage ==
    [Stmt("CREATE STAGE", FQ_STAGE) EXCEPT
        !.ifNotExists = IfNotExists, !.url = S3_URL, !.format = FQ_FILE_FORMAT]

AllTextColumns ==
    << [name |-> "ID", type |-> "STRING"],
       [name |-> "Amount", type |-> "STRING"],
       [name |-> "Profit", type |-> "STRING"],
       [name |-> "Quantity", type |-> "STRING"],
       [name |-> "Category", type |-> "STRING"],
       [name |-> "Sub_Category", type |-> "STRING"] >>
\* lines 67-72
TableColumns ==
    << [name |-> "ID", type |-> "STRING"],
       [name |-> "Amount", type |-> "NUMBER"],
       [name |-> "Profit", type |-> "NUMBER"],
       [name |-> "Quantity", type |-> "NUMBER"],
       [name |-> "Category", type |-> "STRING"],
       [name |-> "Sub_Category", type |-> "STRING"] >>

SqlCreateOrReplaceTable ==
    [Stmt("CREATE TABLE", FQ_TABLE) EXCEPT
        !.orReplace = TRUE, !.columns = TableColumns]
\* lines 63-75
SqlCreateTable ==
    [Stmt("CREATE TABLE", FQ_TABLE) EXCEPT
        !.ifNotExists = IfNotExists, !.columns = TableColumns]

SqlCopyIntoForce ==
    [Stmt("COPY INTO", FQ_TABLE) EXCEPT
        !.from = FQ_STAGE, !.format = FQ_FILE_FORMAT, !.pattern = COPY_PATTERN,
        !.onError = "CONTINUE", !.force = TRUE]
SqlCopyIntoAbort ==
    [Stmt("COPY INTO", FQ_TABLE) EXCEPT
        !.from = FQ_STAGE, !.format = FQ_FILE_FORMAT, !.pattern = COPY_PATTERN]
\* lines 79-88; the statement gives no FORCE option, so FORCE = FALSE
SqlCopyInto ==
    [Stmt("COPY INTO", FQ_TABLE) EXCEPT
        !.from = FQ_STAGE, !.format = FQ_FILE_FORMAT, !.pattern = COPY_PATTERN,
        !.onError = "CONTINUE"]

SqlSelectAll ==
    [Stmt("SELECT", FQ_TABLE) EXCEPT
        !.derive = << [name |-> "Amount_num", of |-> "Amount", type |-> "DOUBLE"],
                      [name |-> "Profit_num", of |-> "Profit", type |-> "DOUBLE"] >>]
\* lines 91-100: session.table(FQ_TABLE) with two derived columns, limit(10)
SqlSelectSample ==
    [Stmt("SELECT", FQ_TABLE) EXCEPT
        !.derive = << [name |-> "Amount_num", of |-> "Amount", type |-> "DOUBLE"],
                      [name |-> "Profit_num", of |-> "Profit", type |-> "DOUBLE"] >>,
        !.limit = <<SampleLimit>>]

----------------------------------------------------------------------------
(* Texts and numbers *)

DigitVal(c) ==
    CASE c = "0" -> 0 [] c = "1" -> 1 [] c = "2" -> 2 [] c = "3" -> 3
      [] c = "4" -> 4 [] c = "5" -> 5 [] c = "6" -> 6 [] c = "7" -> 7
      [] c = "8" -> 8 [] c = "9" -> 9

IsDigit(c) == c \in {"0", "1", "2", "3", "4", "5", "6", "7", "8", "9"}

\* the position of the first "." of a text, Len + 1 if it has none
DotAt(t) ==
    IF \E i \in 1..Len(t) : t[i] = "."
    THEN CHOOSE i \in 1..Len(t) : t[i] = "." /\ \A j \in 1..(i - 1) : t[j] # "."
    ELSE Len(t) + 1

IntDigits(t) == SubSeq(t, 1, DotAt(t) - 1)
FracDigits(t) == SubSeq(t, DotAt(t) + 1, Len(t))

\* an unsigned decimal literal: digits, at most one ".", at least one digit
IsDecimal(t) ==
    /\ \A i \in 1..Len(IntDigits(t)) : IsDigit(IntDigits(t)[i])
    /\ \A i \in 1..Len(FracDigits(t)) : IsDigit(FracDigits(t)[i])
    /\ Len(IntDigits(t)) + Len(FracDigits(t)) > 0

RECURSIVE IntVal(_)
IntVal(ds) ==
    IF ds = <<>> THEN 0 ELSE 10 * IntVal(SubSeq(ds, 1, Len(ds) - 1)) + DigitVal(ds[Len(ds)])

RECURSIVE TrimZeros(_)
TrimZeros(ds) ==
    IF ds # <<>> /\ ds[Len(ds)] = "0" THEN TrimZeros(SubSeq(ds, 1, Len(ds) - 1)) ELSE ds

\* the value of a decimal literal
ParseDecimal(t) == [ip |-> IntVal(IntDigits(t)), fp |-> TrimZeros(FracDigits(t))]

ToNumberTruncating(t) == IntVal(IntDigits(t))
\* a decimal literal stored in a NUMBER column, which is NUMBER(38,0): the
\* value is rounded to an integer, half away from zero (column types of lines 68-70)
ToNumber(t) ==
    IntVal(IntDigits(t))
        + (IF FracDigits(t) # <<>> /\ DigitVal(FracDigits(t)[1]) >= 5 THEN 1 ELSE 0)

Null == <<>>

\* col(c).cast("DOUBLE"), lines 95-96, on a cell of a column of the given
\* type.  CAST (not TRY_CAST) of a text that is no number fails the query.
CastDouble(cell, type) ==
    IF cell = Null THEN [ok |-> TRUE, val |-> Null]
    ELSE IF type = "NUMBER" THEN [ok |-> TRUE, val |-> << [ip |-> cell[1], fp |-> <<>>] >>]
    ELSE IF IsDecimal(cell[1]) THEN [ok |-> TRUE, val |-> << ParseDecimal(cell[1]) >>]
    ELSE [ok |-> FALSE, val |-> Null]

RECURSIVE RegexMatch(_, _)
\* PATTERN: the regular expression must match the whole file name.  Tokens
\* are ".*" and literal characters (COPY_PATTERN, line 17 and line 85).
RegexMatch(p, s) ==
    IF p = <<>> THEN s = <<>>
    ELSE IF Head(p) = ".*"
         THEN RegexMatch(Tail(p), s) \/ (s # <<>> /\ RegexMatch(p, Tail(s)))
         ELSE s # <<>> /\ Head(s) = Head(p) /\ RegexMatch(Tail(p), Tail(s))

----------------------------------------------------------------------------
(* The warehouse: what each statement of main does when it is executed.   *)

KindOf(op) ==
    CASE op = "CREATE DATABASE"    -> "database"
      [] op = "CREATE SCHEMA"      -> "schema"
      [] op = "CREATE FILE FORMAT" -> "file format"
      [] op = "CREATE STAGE"       -> "stage"
      [] op = "CREATE TABLE"       -> "table"

IsCreate(stmt) == stmt.op \notin {"COPY INTO", "SELECT"}

\* the catalog entry a CREATE statement defines
ObjectOf(stmt) ==
    [kind |-> KindOf(stmt.op), name |-> stmt.name, url |-> stmt.url,
     format |-> stmt.format, columns |-> stmt.columns]

ExistsIn(objs, kind, name) == \E o \in objs : o.kind = kind /\ o.name = name

Exists(kind, name) == ExistsIn(objects, kind, name)

\* the columns of a table of the catalog
ColumnsOf(name) ==
    (CHOOSE o \in objects : o.kind = "table" /\ o.name = name).columns

ColumnNames(cols) == {cols[i].name : i \in DOMAIN cols}

ColumnIndex(cols, n) == CHOOSE i \in DOMAIN cols : cols[i].name = n

\* the objects a statement refers to, which must exist for it to compile
Needs(stmt) ==
    CASE stmt.op = "CREATE DATABASE"    -> {}
      [] stmt.op = "CREATE SCHEMA"      -> {<<"database", SubSeq(stmt.name, 1, 1)>>}
      [] stmt.op = "CREATE FILE FORMAT" -> {<<"schema", SubSeq(stmt.name, 1, 2)>>}
      [] stmt.op = "CREATE TABLE"       -> {<<"schema", SubSeq(stmt.name, 1, 2)>>}
      [] stmt.op = "CREATE STAGE"       -> {<<"schema", SubSeq(stmt.name, 1, 2)>>,
                                           <<"file format", stmt.format>>}
      [] stmt.op = "COPY INTO"          -> {<<"table", stmt.name>>,
                                           <<"stage", stmt.from>>,
                                           <<"file format", stmt.format>>}
      [] stmt.op = "SELECT"             -> {<<"table", stmt.name>>}

\* SKIP_HEADER = 1, line 47
SkipHeader == 1

DataLines(f) == SubSeq(f.lines, SkipHeader + 1, Len(f.lines))

\* a line loads if it has one field per column and every field of a NUMBER
\* column is empty or a number
LineLoads(line, cols) ==
    /\ Len(line) = Len(cols)
    /\ \A i \in DOMAIN cols :
          cols[i].type = "NUMBER" => (line[i] = <<>> \/ IsDecimal(line[i]))

\* EMPTY_FIELD_AS_NULL = TRUE, line 48; the column type decides the conversion
ConvertField(text, type) ==
    IF text = <<>> THEN Null
    ELSE IF type = "NUMBER" THEN <<ToNumber(text)>>
    ELSE <<text>>

ConvertLine(line, cols) ==
    [n \in ColumnNames(cols) |->
        ConvertField(line[ColumnIndex(cols, n)], cols[ColumnIndex(cols, n)].type)]

GoodLines(f, cols) == SelectSeq(DataLines(f), LAMBDA l : LineLoads(l, cols))

BadLines(f, cols) == SelectSeq(DataLines(f), LAMBDA l : ~LineLoads(l, cols))

RECURSIVE BagOfSeq(_)
BagOfSeq(s) ==
    IF s = <<>> THEN EmptyBag ELSE SetToBag({Head(s)}) (+) BagOfSeq(Tail(s))

\* the rows one file contributes under ON_ERROR = CONTINUE
FileRows(f, cols) ==
    BagOfSeq([i \in 1..Len(GoodLines(f, cols)) |-> ConvertLine(GoodLines(f, cols)[i], cols)])

RECURSIVE RowsOfFiles(_, _)
RowsOfFiles(files, cols) ==
    IF files = {} THEN EmptyBag
    ELSE LET f == CHOOSE g \in files : TRUE
         IN  FileRows(f, cols) (+) RowsOfFiles(files \ {f}, cols)

\* the files a COPY INTO loads: those under the stage whose name matches the
\* pattern and, unless FORCE is given, that the load metadata of the table
\* does not list as loaded already
CopyCandidates(stmt) ==
    {f \in bucket : /\ RegexMatch(stmt.pattern, f.name)
                    /\ (stmt.force \/ f.name \notin loadHistory)}

FileStatus(f, cols) ==
    IF BadLines(f, cols) = <<>> THEN "LOADED"
    ELSE IF GoodLines(f, cols) = <<>> THEN "LOAD_FAILED"
    ELSE "PARTIALLY_LOADED"

\* the rows COPY INTO returns, one per file it processed
CopyOutput(stmt) ==
    LET cols == ColumnsOf(stmt.name)
    IN  {[file |-> f.name, status |-> FileStatus(f, cols),
          rows_parsed |-> Len(DataLines(f)),
          rows_loaded |-> Len(GoodLines(f, cols))] : f \in CopyCandidates(stmt)}

\* a derived column is appended to the row (DataFrame.with_column)
DeriveRow(row, cols, derive) ==
    [n \in DOMAIN row \cup {derive[i].name : i \in DOMAIN derive} |->
        IF n \in DOMAIN row THEN row[n]
        ELSE LET d == derive[CHOOSE i \in DOMAIN derive : derive[i].name = n]
             IN  CastDouble(row[d.of], cols[ColumnIndex(cols, d.of)].type).val]

CastFails(stmt) ==
    LET cols == ColumnsOf(stmt.name)
    IN  \E r \in BagToSet(tableRows) : \E i \in DOMAIN stmt.derive :
           ~CastDouble(r[stmt.derive[i].of],
                       cols[ColumnIndex(cols, stmt.derive[i].of)].type).ok

\* the error the statement raises in the present state of the warehouse,
\* "none" if it compiles and runs
SqlError(stmt) ==
    IF \E n \in Needs(stmt) : ~Exists(n[1], n[2]) THEN "does-not-exist"
    ELSE IF IsCreate(stmt) /\ Exists(KindOf(stmt.op), stmt.name)
            /\ ~stmt.ifNotExists /\ ~stmt.orReplace THEN "already-exists"
    ELSE IF stmt.op = "COPY INTO" /\ stmt.onError = "ABORT_STATEMENT"
            /\ \E f \in CopyCandidates(stmt) : BadLines(f, ColumnsOf(stmt.name)) # <<>>
         THEN "parse-error"
    ELSE IF stmt.op = "SELECT" /\ CastFails(stmt) THEN "not-recognized"
    ELSE "none"

\* the status message of a statement that succeeds
StatusOf(stmt) ==
    IF ~IsCreate(stmt) THEN "done"
    ELSE IF Exists(KindOf(stmt.op), stmt.name) /\ ~stmt.orReplace
         THEN "already exists, statement succeeded"
    ELSE "successfully created"

\* the catalog after a CREATE statement
ObjectsAfter(stmt) ==
    IF ~IsCreate(stmt) THEN objects
    ELSE IF ~Exists(KindOf(stmt.op), stmt.name) THEN objects \cup {ObjectOf(stmt)}
    ELSE IF stmt.orReplace
         THEN {o \in objects : ~(o.kind = KindOf(stmt.op) /\ o.name = stmt.name)}
                 \cup {ObjectOf(stmt)}
    ELSE objects

Replaces(stmt) ==
    stmt.op = "CREATE TABLE" /\ stmt.orReplace /\ Exists("table", stmt.name)

\* the rows of the target table after the statement: COPY INTO appends
RowsAfter(stmt) ==
    IF stmt.op = "COPY INTO"
    THEN tableRows (+) RowsOfFiles(CopyCandidates(stmt), ColumnsOf(stmt.name))
    ELSE IF Replaces(stmt) THEN EmptyBag
    ELSE tableRows

\* load metadata: a file that was loaded, wholly or in part, is not loaded again
HistoryAfter(stmt) ==
    IF stmt.op = "COPY INTO"
    THEN loadHistory \cup {o.file : o \in {x \in CopyOutput(stmt) : x.status # "LOAD_FAILED"}}
    ELSE IF Replaces(stmt) THEN {}
    ELSE loadHistory

Min(a, b) == IF a < b THEN a ELSE b

\* LIMIT n without ORDER BY: any n rows of the table (all of them if fewer)
LimitRows(B, limit) ==
    IF limit = <<>> THEN {B}
    ELSE {S \in SubBag(B) : BagCardinality(S) = Min(limit[1], BagCardinality(B))}

\* the row lists a SELECT may return
SelectResults(stmt) ==
    LET cols == ColumnsOf(stmt.name)
        D(r) == DeriveRow(r, cols, stmt.derive)
    IN  {[x \in {D(r) : r \in BagToSet(S)} |->
             S[CHOOSE r \in BagToSet(S) : D(r) = x]] : S \in LimitRows(tableRows, stmt.limit)}

----------------------------------------------------------------------------
(* main, lines 28-100 *)

NextPcSkippingFormat(p) ==
    CASE p = "uninitialized" -> "db-ready"
      [] p = "db-ready"      -> "format-ready"
      [] p = "schema-ready"  -> "format-ready"
      [] p = "format-ready"  -> "stage-ready"
      [] p = "stage-ready"   -> "table-ready"
      [] p = "table-ready"   -> "loaded"
      [] p = "loaded"        -> "sample-returned"
\* the statements of main follow one another: where main is after the
\* statement it issued in state p has completed
NextPc(p) ==
    CASE p = "uninitialized" -> "db-ready"
      [] p = "db-ready"      -> "schema-ready"
      [] p = "schema-ready"  -> "format-ready"
      [] p = "format-ready"  -> "stage-ready"
      [] p = "stage-ready"   -> "table-ready"
      [] p = "table-ready"   -> "loaded"
      [] p = "loaded"        -> "sample-returned"

ExecSwallows(p, e) == [pc |-> NextPc(p), error |-> "none"]
\* _exec, lines 24-26, has no try/except and main has none: an exception of
\* session.sql(sql).collect() ends the call of main
ExecRaises(p, e) == [pc |-> "failed", error |-> e]

\* the errors the statement can raise now: its own, or the warehouse refusing
\* it (connection lost, privilege missing)
Errors(stmt) ==
    (IF SqlError(stmt) # "none" THEN {SqlError(stmt)} ELSE {})
        \cup (IF failures < MaxFailures THEN {"unavailable"} ELSE {})

\* _exec(session, sql) and the final collect(): the statement is sent and
\* the call blocks until the warehouse has run it or refused it
Exec(stmt) ==
    \/ /\ SqlError(stmt) = "none"
       /\ objects' = ObjectsAfter(stmt)
       /\ tableRows' = RowsAfter(stmt)
       /\ loadHistory' = HistoryAfter(stmt)
       /\ copyResult' = IF stmt.op = "COPY INTO" THEN CopyOutput(stmt) ELSE copyResult
       /\ IF stmt.op = "SELECT"
          THEN /\ result' \in SelectResults(stmt)
               /\ returned' = TRUE
          ELSE UNCHANGED <<result, returned>>
       /\ issued' = Append(issued, [stmt |-> stmt, outcome |-> "ok",
                                     status |-> StatusOf(stmt)])
       /\ pc' = NextPc(pc)
       /\ UNCHANGED <<env, bucket, error, history, failures>>
    \/ \E e \in Errors(stmt) :
          /\ issued' = Append(issued, [stmt |-> stmt, outcome |-> e, status |-> "error"])
          /\ pc' = ExecRaises(pc, e).pc
          /\ error' = ExecRaises(pc, e).error
          /\ failures' = IF e = "unavailable" THEN failures + 1 ELSE failures
          /\ UNCHANGED <<env, bucket, objects, tableRows, loadHistory, copyResult,
                         result, returned, history>>

\* line 37
EnsureDatabase == pc = "uninitialized" /\ Exec(SqlCreateDatabase)

\* line 38
EnsureSchema == pc = "db-ready" /\ Exec(SqlCreateSchema)

\* lines 41-50
EnsureFileFormat == pc = "schema-ready" /\ Exec(SqlCreateFileFormat)

\* lines 53-60
EnsureStage == pc = "format-ready" /\ Exec(SqlCreateStage)

\* lines 63-75
EnsureTable == pc = "stage-ready" /\ Exec(SqlCreateTable)

\* lines 79-88
BulkLoad == pc = "table-ready" /\ Exec(SqlCopyInto)

\* lines 91-100
ReadSample == pc = "loaded" /\ Exec(SqlSelectSample)

\* main is called again, in the same process, after the earlier call ended
CallAgain ==
    /\ pc \in {"sample-returned", "failed"}
    /\ Len(history) + 1 < MaxRuns
    /\ history' = Append(history, pc)
    /\ pc' = "uninitialized"
    /\ issued' = <<>>
    /\ error' = "none"
    /\ copyResult' = {}
    /\ returned' = FALSE
    /\ result' = EmptyBag
    /\ UNCHANGED <<env, bucket, objects, tableRows, loadHistory, failures>>

----------------------------------------------------------------------------
(* Initial states *)

Header == << <<"I", "D">>, <<"A">>, <<"P">>, <<"Q">>, <<"C">>, <<"S">> >>

Line(id, amount, profit) == << id, amount, profit, <<"2">>, <<"c">>, <<"s">> >>

OrdersFile ==
    [name  |-> <<"O", "r", "d", "e", "r", "s">>,
     lines |-> << Header,
                  Line(<<"A", "1">>, <<"1", "2", ".", "5">>, <<"7">>),
                  Line(<<"A", "2">>, <<"1", "2", ".", "5">>, <<"a", "b", "c">>),
                  Line(<<"A", "3">>, <<"4">>, <<>>),
                  << <<"A", "4">>, <<"1">>, <<"1">>, <<"1">>, <<"c">> >> >>]

MoreOrdersFile ==
    [name  |-> <<"x", "O", "r", "d", "e", "r">>,
     lines |-> << Header, Line(<<"B", "1">>, <<"3">>, <<"4">>) >>]

LowerCaseFile ==
    [name  |-> <<"o", "r", "d", "e", "r">>,
     lines |-> << Header, Line(<<"C", "1">>, <<"6">>, <<"1", ".", "4">>) >>]

FileCatalog == {OrdersFile, MoreOrdersFile, LowerCaseFile}

Alphabet == {"2", "5", ".", "a"}

Texts == UNION {[1..n -> Alphabet] : n \in 0..MaxTextLen}

ProbeFile(t) ==
    [name  |-> <<"O", "r", "d", "e", "r", "P">>,
     lines |-> << Header,
                  Line(<<"P", "1">>, t, <<"7">>),
                  Line(<<"P", "2">>, <<"3">>, t),
                  Line(<<"P", "3">>, <<"1", "2", ".", "5">>, <<"a", "b", "c">>),
                  Line(<<"P", "4">>, <<"1", "2", ".", "5">>, <<"7">>) >>]

\* the environments tried: nothing set, one variable set, all set
Envs == {{}} \cup {{v} : v \in EnvVars} \cup {EnvVars}

\* the catalogs an earlier, possibly interrupted, call of main leaves behind
PriorCatalogs ==
    LET d == ObjectOf(SqlCreateDatabase)
        s == ObjectOf(SqlCreateSchema)
        rest == {ObjectOf(SqlCreateFileFormat), ObjectOf(SqlCreateStage),
                 ObjectOf(SqlCreateTable)}
    IN  {{}, {d}} \cup {{d, s} \cup X : X \in SUBSET rest}

PriorRow(id) ==
    [ID |-> <<id>>, Amount |-> <<100>>, Profit |-> <<10>>, Quantity |-> <<1>>,
     Category |-> << <<"c">> >>, Sub_Category |-> Null]

PriorTable ==
    SetToBag({PriorRow(<<"Z", "1">>)})
        (+) [r \in {PriorRow(<<"Z", "2">>)} |-> PriorRows - 1]

InitCall ==
    /\ pc = "uninitialized"
    /\ issued = <<>>
    /\ error = "none"
    /\ copyResult = {}
    /\ returned = FALSE
    /\ result = EmptyBag
    /\ history = <<>>
    /\ failures = 0

Init ==
    /\ env \in Envs
    /\ bucket \in SUBSET FileCatalog
    /\ objects \in PriorCatalogs
    /\ IF Exists("table", FQ_TABLE)
       THEN tableRows \in {EmptyBag, PriorTable}
       ELSE tableRows = EmptyBag
    /\ loadHistory = {}
    /\ InitCall

\* one file with a probed Amount and a probed Profit, default configuration
InitData ==
    /\ env = {}
    /\ \E t \in Texts : bucket = {ProbeFile(t)}
    /\ objects \in {{}, {ObjectOf(SqlCreateDatabase), ObjectOf(SqlCreateSchema),
                        ObjectOf(SqlCreateFileFormat), ObjectOf(SqlCreateStage),
                        ObjectOf(SqlCreateTable)}}
    /\ tableRows = EmptyBag
    /\ loadHistory = {}
    /\ InitCall

Next ==
    \/ EnsureDatabase
    \/ EnsureSchema
    \/ EnsureFileFormat
    \/ EnsureStage
    \/ EnsureTable
    \/ BulkLoad
    \/ ReadSample
    \/ CallAgain

Spec == Init /\ [][Next]_vars

SpecData == InitData /\ [][Next]_vars

----------------------------------------------------------------------------
(* Properties *)

Ops(log) == [i \in DOMAIN log |-> log[i].stmt.op]

AllOk(log) == \A i \in DOMAIN log : log[i].outcome = "ok"

ExpectedOps ==
    << "CREATE DATABASE", "CREATE SCHEMA", "CREATE FILE FORMAT", "CREATE STAGE",
       "CREATE TABLE", "COPY INTO", "SELECT" >>

ExpectedStates ==
    << "uninitialized", "db-ready", "schema-ready", "format-ready", "stage-ready",
       "table-ready", "loaded", "sample-returned" >>

\* C1: in every call of main the statements issued so far are an initial
\* part of the fixed sequence database, schema, file format, stage, table,
\* load, read, each issued once and only after all earlier ones completed;
\* main is in the state that follows its last completed statement, a call
\* that returns has issued all seven, and no statement ever refers to an
\* object that does not exist yet.
C1_FixedOrder ==
    /\ Len(issued) <= Len(ExpectedOps)
    /\ Ops(issued) = SubSeq(ExpectedOps, 1, Len(issued))
    /\ \A i \in 1..(Len(issued) - 1) : issued[i].outcome = "ok"
    /\ \A i \in DOMAIN issued : issued[i].outcome # "does-not-exist"
    /\ pc # "failed" => AllOk(issued) /\ pc = ExpectedStates[Len(issued) + 1]
    /\ pc = "sample-returned" => Len(issued) = Len(ExpectedOps)

C1_Witness ==
    pc = "sample-returned" /\ Ops(issued) = ExpectedOps /\ AllOk(issued)

\* C2: a statement that fails is the last statement of its call: the call
\* ends with that statement's error, no statement is issued twice, nothing
\* is returned, and a call returns a sample only if all seven statements
\* succeeded.
C2_FailFast ==
    /\ \A i \in DOMAIN issued :
          issued[i].outcome # "ok" =>
             /\ i = Len(issued)
             /\ pc = "failed"
             /\ error = issued[i].outcome
             /\ ~returned
             /\ result = EmptyBag
    /\ \A i, j \in DOMAIN issued : i # j => issued[i].stmt.op # issued[j].stmt.op
    /\ returned <=> pc = "sample-returned"
    /\ pc = "sample-returned" => Len(issued) = Len(ExpectedOps) /\ AllOk(issued)
    /\ pc = "failed" <=> error # "none"

C2_Witness ==
    /\ pc = "failed"
    /\ Len(issued) = 4
    /\ issued[4].outcome = "unavailable"
    /\ ~returned

FiveObjects ==
    {<<"database", <<DB>>>>, <<"schema", <<DB, SCHEMA>>>>,
     <<"file format", <<DB, SCHEMA, FILE_FORMAT_NAME>>>>,
     <<"stage", <<DB, SCHEMA, STAGE_NAME>>>>,
     <<"table", <<DB, SCHEMA, TABLE_NAME>>>>}

AllFiveExist == \A n \in FiveObjects : Exists(n[1], n[2])

NoDuplicateObjects ==
    \A o1, o2 \in objects : (o1.kind = o2.kind /\ o1.name = o2.name) => o1 = o2

\* C3: once the provisioning steps have run, the five objects exist, and
\* running the steps again changes nothing: no step of a later call adds,
\* replaces or removes a catalog object, none raises a duplicate-object
\* error, and the catalog never holds two objects of one kind and name.
C3_ProvisioningIdempotent ==
    /\ [](/\ NoDuplicateObjects
          /\ \A i \in DOMAIN issued : issued[i].outcome # "already-exists"
          /\ pc \in {"table-ready", "loaded", "sample-returned"} => AllFiveExist)
    /\ [][AllFiveExist => (objects' = objects /\ error' # "already-exists")]_vars

C3_Witness ==
    /\ Len(history) >= 1
    /\ history[1] = "sample-returned"
    /\ pc = "table-ready"
    /\ \A i \in 1..5 : issued[i].status = "already exists, statement succeeded"

Matching == {f \in bucket : RegexMatch(COPY_PATTERN, f.name)}

RECURSIVE Range(_)
Range(q) == IF q = <<>> THEN {} ELSE {Head(q)} \cup Range(Tail(q))

\* C4 as stated: after a second call of main has loaded, every row of every
\* matching source file is in the table twice as often as in the file.
C4_ReloadDuplicates ==
    ("sample-returned" \in Range(history) /\ pc \in {"loaded", "sample-returned"}) =>
        \A f \in Matching :
            \A r \in BagToSet(FileRows(f, TableColumns)) :
                CopiesIn(r, tableRows) >= 2 * CopiesIn(r, FileRows(f, TableColumns))

\* C4: the bulk load of a call of main that follows a successful call, with
\* the source files unchanged, processes no file and leaves the rows of the
\* table as they are: the files loaded before are skipped.
C4_ReloadSkipsLoadedFiles ==
    [][("sample-returned" \in Range(history) /\ pc = "table-ready" /\ pc' = "loaded")
          => (tableRows' = tableRows /\ \A o \in copyResult' : o.rows_loaded = 0)]_vars

C4_Witness ==
    /\ "sample-returned" \in Range(history)
    /\ pc = "loaded"
    /\ \E f \in Matching : f.name \in loadHistory /\ GoodLines(f, TableColumns) # <<>>
    /\ copyResult = {}

\* C5: no step decreases the number of rows of the target table: every row
\* stays, as often as it was there, and the table is never dropped.
C5_RowsNeverDecrease ==
    [][/\ tableRows \sqsubseteq tableRows'
       /\ BagCardinality(tableRows') >= BagCardinality(tableRows)
       /\ Exists("table", FQ_TABLE) => ExistsIn(objects', "table", FQ_TABLE)]_vars

C5_Witness ==
    /\ Len(history) >= 1
    /\ pc = "loaded"
    /\ \E o \in copyResult : o.rows_loaded > 0
    /\ BagCardinality(tableRows) > PriorRows

TableFields == {"ID", "Amount", "Profit", "Quantity", "Category", "Sub_Category"}

Stored(r) == [n \in TableFields |-> r[n]]

\* C6: the list a call returns has min(n, 10) rows, n the number of rows of
\* the table; each is a row of the table, no more often than the table has
\* it, and the list is empty only if the table is.
C6_SampleSize ==
    pc = "sample-returned" =>
        /\ BagCardinality(result) <= 10
        /\ BagCardinality(result) = Min(BagCardinality(tableRows), 10)
        /\ \A r \in BagToSet(result) :
              /\ Stored(r) \in BagToSet(tableRows)
              /\ CopiesIn(r, result) <= CopiesIn(Stored(r), tableRows)
        /\ (result = EmptyBag => tableRows = EmptyBag)

C6_Witness ==
    /\ pc = "sample-returned"
    /\ BagCardinality(tableRows) > 10
    /\ BagCardinality(result) = 10


\* the data lines of the source files that have one field per column
SourceLines ==
    UNION {{DataLines(f)[i] : i \in DOMAIN DataLines(f)} : f \in Matching}

FullLines == {l \in SourceLines : Len(l) = 6}

ResultRowsOf(l) == {r \in BagToSet(result) : r.ID = <<l[1]>>}

\* what the claim expects of a derived column: the value of the text, or null
AsClaimed(t) == IF IsDecimal(t) THEN <<ParseDecimal(t)>> ELSE Null

\* what the code yields: the value of the text rounded to an integer, half
\* away from zero; null for an empty field
Rounded(t) ==
    IF t = <<>> THEN Null
    ELSE << [ip |-> ParseDecimal(t).ip
                       + (IF ParseDecimal(t).fp # <<>>
                             /\ DigitVal(ParseDecimal(t).fp[1]) >= 5 THEN 1 ELSE 0),
             fp |-> <<>>] >>

NumericFieldsLoad(l) == \A i \in {2, 3, 4} : l[i] = <<>> \/ IsDecimal(l[i])

\* C7 as stated: every source row is returned (the table is small) with
\* Amount_num and Profit_num the value of the text if it is a decimal, and
\* null if it is not.
C7_CastParsesText ==
    pc = "sample-returned" =>
        \A l \in FullLines :
            \E r \in ResultRowsOf(l) :
                r.Amount_num = AsClaimed(l[2]) /\ r.Profit_num = AsClaimed(l[3])

\* C7: Amount and Profit are NUMBER columns, so the final read never fails
\* on a cast and a derived column is the stored number as a double: the
\* value of the source text rounded to an integer, null only for an empty
\* field.  A source row whose amount, profit or quantity text is not a
\* number is skipped by the load and is in no result.
C7_CastOfStoredNumber ==
    /\ \A i \in DOMAIN issued : issued[i].outcome # "not-recognized"
    /\ pc = "sample-returned" =>
          \A l \in FullLines :
              IF NumericFieldsLoad(l)
              THEN /\ ResultRowsOf(l) # {}
                   /\ \A r \in ResultRowsOf(l) :
                         /\ r.Amount_num = Rounded(l[2])
                         /\ r.Profit_num = Rounded(l[3])
              ELSE ResultRowsOf(l) = {}

C7_Witness ==
    /\ pc = "sample-returned"
    /\ \E r \in BagToSet(result) :
          /\ r.ID = << <<"P", "4">> >>
          /\ r.Amount_num = << [ip |-> 13, fp |-> <<>>] >>
          /\ r.Profit_num = << [ip |-> 7, fp |-> <<>>] >>
    /\ \E r \in BagToSet(result) :
          r.ID = << <<"P", "1">> >> /\ r.Amount_num = << [ip |-> 3, fp |-> <<>>] >>
    /\ \A r \in BagToSet(result) : r.ID # << <<"P", "3">> >>

\* C8: a row that fails to parse does not fail the load: the load statement
\* succeeds, and once it has, every row of every matching file that parses
\* is in the table, as often as in the file, no row that fails to parse is,
\* and the call goes on to the read without an error.
C8_BadRowsSkipped ==
    /\ \A i \in DOMAIN issued : issued[i].outcome # "parse-error"
    /\ pc \in {"loaded", "sample-returned"} =>
          /\ issued[6].outcome = "ok"
          /\ error = "none"
          /\ \A f \in Matching :
                /\ \A i \in DOMAIN DataLines(f) :
                      LET l == DataLines(f)[i]
                      IN  IF Len(l) = 6 /\ NumericFieldsLoad(l)
                          THEN CopiesIn(ConvertLine(l, TableColumns), tableRows) >= 1
                          ELSE \A r \in BagToSet(tableRows) : r.ID # <<l[1]>>
                /\ FileRows(f, TableColumns) \sqsubseteq tableRows

C8_Witness ==
    /\ pc = "sample-returned"
    /\ \E o \in copyResult : o.status = "PARTIALLY_LOADED" /\ o.rows_loaded = 2
    /\ \E r \in BagToSet(tableRows) : r.ID = << <<"A", "1">> >>
    /\ \A r \in BagToSet(tableRows) : r.ID # << <<"A", "2">> >>

TheTable == CHOOSE o \in objects : o.kind = "table" /\ o.name = FQ_TABLE

Created == Len(issued) >= 5 /\ issued[5].status = "successfully created"

\* C9 as stated: the table that ensure_table created has the six columns in
\* order and every one of them holds text.
C9_AllColumnsText ==
    Created =>
        /\ [i \in DOMAIN TheTable.columns |-> TheTable.columns[i].name]
              = <<"ID", "Amount", "Profit", "Quantity", "Category", "Sub_Category">>
        /\ \A i \in DOMAIN TheTable.columns : TheTable.columns[i].type = "STRING"

IsText(cell) == cell = Null \/ (Len(cell) = 1 /\ DOMAIN cell[1] \subseteq 1..8)

IsNumber(cell) == cell = Null \/ (Len(cell) = 1 /\ cell[1] \in Nat)

IsDouble(cell) == cell = Null \/ (Len(cell) = 1 /\ DOMAIN cell[1] = {"ip", "fp"})

\* C9: the table that ensure_table created has the six columns ID, Amount,
\* Profit, Quantity, Category, Sub_Category in this order; ID, Category and
\* Sub_Category are text and Amount, Profit and Quantity are NUMBER.  Every
\* returned record has these six fields, the three NUMBER fields holding
\* numbers, and the two derived fields Amount_num and Profit_num, each a
\* double or null.
C9_TableLayout ==
    /\ Created =>
          /\ [i \in DOMAIN TheTable.columns |-> TheTable.columns[i].name]
                = <<"ID", "Amount", "Profit", "Quantity", "Category", "Sub_Category">>
          /\ [i \in DOMAIN TheTable.columns |-> TheTable.columns[i].type]
                = <<"STRING", "NUMBER", "NUMBER", "NUMBER", "STRING", "STRING">>
    /\ (Created /\ pc = "sample-returned") =>
          \A r \in BagToSet(result) :
              /\ DOMAIN r = TableFields \cup {"Amount_num", "Profit_num"}
              /\ IsText(r.ID) /\ IsText(r.Category) /\ IsText(r.Sub_Category)
              /\ IsNumber(r.Amount) /\ IsNumber(r.Profit) /\ IsNumber(r.Quantity)
              /\ IsDouble(r.Amount_num) /\ IsDouble(r.Profit_num)

C9_Witness ==
    /\ Created
    /\ pc = "sample-returned"
    /\ \E r \in BagToSet(result) : r.Amount = <<13>> /\ r.Amount_num # Null

NameOf(i) == issued[i].stmt.name

\* C10: every name a statement uses is built from the configuration, which
\* no step changes: the schema is DB.SCHEMA, the file format, stage and
\* table are DB.SCHEMA.name; the stage is bound to the file format that was
\* ensured, the load names the table, stage and file format that were
\* ensured and the read names the table that was loaded.  With nothing set
\* in the environment the names are the three default names.
C10_NamesFromConfiguration ==
    /\ [](/\ Len(issued) >= 1 => NameOf(1) = <<DB>>
          /\ Len(issued) >= 2 => NameOf(2) = <<DB, SCHEMA>>
          /\ Len(issued) >= 3 => NameOf(3) = <<DB, SCHEMA, FILE_FORMAT_NAME>>
          /\ Len(issued) >= 4 => /\ NameOf(4) = <<DB, SCHEMA, STAGE_NAME>>
                                 /\ issued[4].stmt.format = NameOf(3)
          /\ Len(issued) >= 5 => NameOf(5) = <<DB, SCHEMA, TABLE_NAME>>
          /\ Len(issued) >= 6 => /\ NameOf(6) = NameOf(5)
                                 /\ issued[6].stmt.from = NameOf(4)
                                 /\ issued[6].stmt.format = NameOf(3)
          /\ Len(issued) >= 7 => NameOf(7) = NameOf(6)
          /\ (env = {} /\ Len(issued) >= 5) =>
                /\ Dotted(NameOf(3)) = "DATA_PIPELINE_DB.CSV_FILES.csv_format"
                /\ Dotted(NameOf(4)) = "DATA_PIPELINE_DB.CSV_FILES.aws_stage"
                /\ Dotted(NameOf(5)) = "DATA_PIPELINE_DB.CSV_FILES.ORDERS")
    /\ [][env' = env]_vars

C10_Witness ==
    /\ env = {}
    /\ pc = "sample-returned"
    /\ Dotted(NameOf(4)) = "DATA_PIPELINE_DB.CSV_FILES.aws_stage"
    /\ Dotted(NameOf(7)) = "DATA_PIPELINE_DB.CSV_FILES.ORDERS"
    /\ Dotted(issued[6].stmt.format) = "DATA_PIPELINE_DB.CSV_FILES.csv_format"

====
